---- MODULE Spec2Model ----
(***************************************************************************)
(* Model of the proof-to-payout server (src/server.js).                    *)
(*                                                                         *)
(* State: the continuation of every POST /receive-proofs run (one record   *)
(* per request, suspended at the awaits of the handler and of              *)
(* transferReward), the WebSocket server's client set with each client's   *)
(* readyState, and the frames written to the observers by the last step.   *)
(*                                                                         *)
(* Node runs a handler without interruption between two awaits, so every   *)
(* action is the code from one suspension point to the next.  External     *)
(* calls (verifyProof, PublicKey, the spl-token and web3 calls, ws.send)   *)
(* return or raise as the environment chooses.                             *)
(*                                                                         *)
(* JavaScript strings are sequences of one-character strings, so that      *)
(* String.replace, String.includes and parseFloat are computed; Numbers    *)
(* are IEEE 754 doubles, so that parseFloat(amount) * 1e9 rounds as the    *)
(* code's product does.                                                    *)
(*                                                                         *)
(* Spec and SpecConcurrent are the server with /receive-proofs and the     *)
(* observers, SpecOverlapping its requests while no observer is connected, *)
(* SpecConversion the same server fed amounts of several shapes,           *)
(* SpecTransferTokens the second variant of the file (lines 397-563),      *)
(* which has /transfer-tokens and no observers.                            *)
(***************************************************************************)
EXTENDS Integers, Sequences, FiniteSets, TLC

(* ---------------------------------------------------------------- bounds *)

\* Number of /receive-proofs requests of a run of SpecConcurrent (each may
\* overlap the others).
MaxRequests == 2

\* Number of observer connections that may exist at once (Spec).
MaxObservers == 2

\* Number of observer connections that may exist at once while several
\* requests overlap (SpecConcurrent).
MaxConcurrentObservers == 1

Requests == 1..MaxRequests
Observers == 1..MaxObservers
ConcurrentObservers == 1..MaxConcurrentObservers

(* --------------------------------------------------------------- strings *)

Range(s) == {s[i] : i \in 1..Len(s)}

\* The value of a property that is not there.
Undefined == << "<undefined>" >>

\* JavaScript truthiness of a string-or-undefined value (the !x tests).
Truthy(v) == v # Undefined /\ v # <<>>

\* s.indexOf(pat): the first position at which pat occurs in s, 0 if none.
IndexOf(s, pat) ==
  LET hits == {i \in 1..(Len(s) + 1) :
                 /\ i + Len(pat) - 1 <= Len(s)
                 /\ SubSeq(s, i, i + Len(pat) - 1) = pat}
  IN IF hits = {} THEN 0 ELSE CHOOSE i \in hits : \A j \in hits : i <= j

\* s.includes(pat)
Includes(s, pat) == IndexOf(s, pat) # 0

\* s.replace(pat, rep) with a string pattern: the first occurrence only.
Replace(s, pat, rep) ==
  LET i == IndexOf(s, pat)
  IN IF i = 0 THEN s
     ELSE SubSeq(s, 1, i - 1) \o rep \o SubSeq(s, i + Len(pat), Len(s))

StrAmazon == <<"a", "m", "a", "z", "o", "n">>
StrFlipkart == <<"f", "l", "i", "p", "k", "a", "r", "t">>

\* "&#x20b9;", the pattern of getDataFromAmazon.
RupeeEntity == <<"&", "#", "x", "2", "0", "b", "9", ";">>

\* The rupee sign itself, as generateReclaimProofForAmazon writes it.
RupeeGlyph == <<"₹">>

Digits == {"0", "1", "2", "3", "4", "5", "6", "7", "8", "9"}

DigitVal(c) ==
  CASE c = "0" -> 0 [] c = "1" -> 1 [] c = "2" -> 2 [] c = "3" -> 3
    [] c = "4" -> 4 [] c = "5" -> 5 [] c = "6" -> 6 [] c = "7" -> 7
    [] c = "8" -> 8 [] c = "9" -> 9

\* The longest prefix of s made of digits.
RECURSIVE DigitPrefix(_)
DigitPrefix(s) ==
  IF s # <<>> /\ Head(s) \in Digits
    THEN <<Head(s)>> \o DigitPrefix(Tail(s))
    ELSE <<>>

RECURSIVE SkipSpaces(_)
SkipSpaces(s) ==
  IF s # <<>> /\ Head(s) = " " THEN SkipSpaces(Tail(s)) ELSE s

\* parseFloat(s) for strings without an exponent part: leading blanks are
\* skipped, then an optional sign, digits and an optional fraction; NaN when
\* no digit is found.  The literal read is sign int.frac; ToDouble gives its
\* Number value.
parseFloat(s) ==
  LET t == IF s = Undefined THEN <<>> ELSE SkipSpaces(s)
      neg == t # <<>> /\ Head(t) = "-"
      u == IF t # <<>> /\ Head(t) \in {"-", "+"} THEN Tail(t) ELSE t
      ip == DigitPrefix(u)
      rest == SubSeq(u, Len(ip) + 1, Len(u))
      fp == IF rest # <<>> /\ Head(rest) = "." THEN DigitPrefix(Tail(rest)) ELSE <<>>
  IN IF ip = <<>> /\ fp = <<>>
       THEN [nan |-> TRUE, neg |-> FALSE, int |-> <<>>, frac |-> <<>>]
       ELSE [nan |-> FALSE, neg |-> neg, int |-> ip, frac |-> fp]

(* --------------------------------------------------------------- numbers *)

(* Natural numbers of any size, as the sequence of their digits in base
   2^LimbBits, the least significant first, without a leading (last) zero;
   <<>> is 0.  Every intermediate value stays below 2^31. *)
LimbBits == 15
Base == 2^LimbBits

Norm(a) ==
  LET nz == {i \in 1..Len(a) : a[i] # 0}
  IN IF nz = {} THEN <<>>
     ELSE SubSeq(a, 1, CHOOSE m \in nz : \A k \in nz : k <= m)

\* a * m + c for m, c < Base
RECURSIVE MulSmall(_, _, _)
MulSmall(a, m, c) ==
  IF a = <<>> THEN (IF c = 0 THEN <<>> ELSE <<c>>)
  ELSE LET v == Head(a) * m + c
       IN <<v % Base>> \o MulSmall(Tail(a), m, v \div Base)

\* a + b + c for c < Base
RECURSIVE AddC(_, _, _)
AddC(a, b, c) ==
  IF a = <<>> /\ b = <<>> THEN (IF c = 0 THEN <<>> ELSE <<c>>)
  ELSE LET x == IF a = <<>> THEN 0 ELSE Head(a)
           y == IF b = <<>> THEN 0 ELSE Head(b)
           v == x + y + c
       IN <<v % Base>> \o AddC(IF a = <<>> THEN a ELSE Tail(a),
                               IF b = <<>> THEN b ELSE Tail(b), v \div Base)

\* a * b
RECURSIVE Mul(_, _)
Mul(a, b) ==
  IF a = <<>> \/ b = <<>> THEN <<>>
  ELSE LET high == Mul(a, Tail(b))
       IN AddC(MulSmall(a, Head(b), 0),
               IF high = <<>> THEN high ELSE <<0>> \o high, 0)

\* Quotient and remainder of a by d, 0 < d < Base, from digit i downwards.
RECURSIVE DivSmallFrom(_, _, _, _)
DivSmallFrom(a, i, d, st) ==
  IF i = 0 THEN [q |-> Norm(st.q), rem |-> st.rem]
  ELSE LET v == st.rem * Base + a[i]
       IN DivSmallFrom(a, i - 1, d, [q |-> <<v \div d>> \o st.q, rem |-> v % d])

DivSmall(a, d) == DivSmallFrom(a, Len(a), d, [q |-> <<>>, rem |-> 0])

\* floor(a / 10^d), and whether anything was cut off.
RECURSIVE DivPow10(_, _, _)
DivPow10(a, d, cut) ==
  IF d = 0 THEN [q |-> a, cut |-> cut]
  ELSE LET r == DivSmall(a, 10)
       IN DivPow10(r.q, d - 1, cut \/ r.rem # 0)

RECURSIVE Pow10(_)
Pow10(d) == IF d = 0 THEN <<1>> ELSE MulSmall(Pow10(d - 1), 10, 0)

\* The number written with the decimal digits ds.
RECURSIVE FromDigits(_)
FromDigits(ds) ==
  IF ds = <<>> THEN <<>>
  ELSE MulSmall(FromDigits(SubSeq(ds, 1, Len(ds) - 1)), 10, DigitVal(ds[Len(ds)]))

\* The decimal digits of a, none for 0.
RECURSIVE ToDecimal(_)
ToDecimal(a) ==
  IF a = <<>> THEN <<>>
  ELSE LET r == DivSmall(a, 10)
       IN ToDecimal(r.q) \o <<CHOOSE c \in Digits : DigitVal(c) = r.rem>>

\* Number of binary digits of a.
BitLen(a) ==
  IF a = <<>> THEN 0
  ELSE LimbBits * (Len(a) - 1)
         + (CHOOSE n \in 1..LimbBits : 2^(n - 1) <= a[Len(a)] /\ a[Len(a)] < 2^n)

\* a * 2^k
Shl(a, k) ==
  IF a = <<>> THEN a
  ELSE [i \in 1..(k \div LimbBits) |-> 0] \o MulSmall(a, 2^(k % LimbBits), 0)

\* floor(a / 2^k)
Shr(a, k) ==
  DivSmall(SubSeq(a, (k \div LimbBits) + 1, Len(a)), 2^(k % LimbBits)).q

\* Some binary digit of a below the (k+1)-th is set.
AnyBelow(a, k) == Shl(Shr(a, k), k) # a

\* The k-th binary digit of a (the first is the least significant).
BitAt(a, k) ==
  LET w == ((k - 1) \div LimbBits) + 1
  IN IF w > Len(a) THEN 0 ELSE (a[w] \div 2^((k - 1) % LimbBits)) % 2

\* Number of binary digits of the significand of a Number (IEEE 754 double).
Precision == 53

\* q (cut: something non-zero lies below q's last digit) rounded to Precision
\* binary digits, ties to even: the result is m * 2^k.
RoundNearestEven(q, cut) ==
  LET k == BitLen(q) - Precision
  IN IF k <= 0 THEN [m |-> q, k |-> 0]
     ELSE LET kept == Shr(q, k)
              up == BitAt(q, k) = 1
                      /\ (cut \/ AnyBelow(q, k - 1) \/ BitAt(kept, 1) = 1)
              m == IF up THEN AddC(kept, <<1>>, 0) ELSE kept
          IN IF BitLen(m) > Precision THEN [m |-> Shr(m, 1), k |-> k + 1]
             ELSE [m |-> m, k |-> k]

\* The Number nearest to N / 10^d, as m * 2^e: the magnitude parseFloat
\* returns for a literal with the digits N and d decimals.
ToDouble(N, d) ==
  IF N = <<>> THEN [m |-> N, e |-> 0]
  ELSE LET need == Precision + 2 + BitLen(Pow10(d)) - BitLen(N)
           s == IF need > 0 THEN need ELSE 0
           qc == DivPow10(Shl(N, s), d, FALSE)
           rn == RoundNearestEven(qc.q, qc.cut)
       IN [m |-> rn.m, e |-> rn.k - s]

\* x * y in Number arithmetic: the exact product, rounded.
Times(x, y) ==
  LET rn == RoundNearestEven(Mul(x.m, y.m), FALSE)
  IN [m |-> rn.m, e |-> rn.k + x.e + y.e]

\* Math.floor, which rounds to minus infinity, of (-1)^neg * x.m * 2^x.e.
Floor(neg, x) ==
  LET mag == IF x.e >= 0 THEN Shl(x.m, x.e)
             ELSE IF neg /\ AnyBelow(x.m, -x.e) THEN AddC(Shr(x.m, -x.e), <<1>>, 0)
             ELSE Shr(x.m, -x.e)
  IN [neg |-> neg /\ mag # <<>>, mag |-> mag]

\* Number of decimals transferReward assumes (the 1e9 of line 193).
TokenDecimals == 9

\* BigInt(Math.floor(parseFloat(amount) * 1e9)) for a literal pf that is not
\* NaN: the sign and the decimal digits of the integer (none for 0n).
FloorBaseUnits(pf) ==
  LET x == ToDouble(FromDigits(pf.int \o pf.frac), Len(pf.frac))
      f == Floor(pf.neg, Times(x, ToDouble(Pow10(TokenDecimals), 0)))
  IN [neg |-> f.neg, digits |-> ToDecimal(f.mag)]

(* ---------------------------------------------------- request bodies *)

UrlAmazon ==
  <<"h", "t", "t", "p", "s", ":", "/", "/">> \o StrAmazon \o <<".", "i", "n">>
UrlFlipkart ==
  <<"h", "t", "t", "p", "s", ":", "/", "/">> \o StrFlipkart \o <<".", "c", "o", "m">>
UrlOther == <<"h", "t", "t", "p", "s", ":", "/", "/", "e", "b", "a", "y">>

Amount250 == <<"2", "5", "0">>
Amount500 == <<"5", "0", "0">>
AmountOne == <<"1">>
AmountCents == <<"2", ".", "0", "1">>
AmountNano == <<"0", ".", "0", "0", "0", "0", "0", "0", "0", "0", "1">>
AmountBelowNano == <<"0", ".", "0", "0", "0", "0", "0", "0", "0", "0", "0", "4">>
AmountNegative == <<"-">> \o AmountBelowNano
Addr1 == <<"A", "D", "D", "R", "1">>

\* What JSON.parse(proof.claimData.parameters) meets: the property is not
\* there, its text is not JSON, or it is an object with a url.
Params(url) == [kind |-> "ok", url |-> url]
ParamsAbsent == [kind |-> "absent", url |-> <<>>]
ParamsBad == [kind |-> "bad", url |-> <<>>]

\* What JSON.parse(proof.claimData.context) meets.
Context(balance, text, msg) ==
  [kind |-> "ok", hasParams |-> TRUE, balance |-> balance, text |-> text,
   contextMessage |-> msg]
ContextBad ==
  [kind |-> "bad", hasParams |-> FALSE, balance |-> Undefined, text |-> Undefined,
   contextMessage |-> Undefined]

\* A request body: whether decodeURIComponent accepts it, whether the decoded
\* text is JSON, and the claimData of the envelope.
Body(uri, json, params, context) ==
  [uri |-> uri, json |-> json, parameters |-> params, context |-> context]

NoContext == ContextBad

\* The bodies a client may post, by name.
ProofOf(id) ==
  CASE id = "badEscape" -> Body(FALSE, FALSE, ParamsAbsent, NoContext)
    [] id = "notJson" -> Body(TRUE, FALSE, ParamsAbsent, NoContext)
    [] id = "noParameters" -> Body(TRUE, TRUE, ParamsAbsent, NoContext)
    [] id = "badParameters" -> Body(TRUE, TRUE, ParamsBad, NoContext)
    [] id = "otherShop" ->
         Body(TRUE, TRUE, Params(UrlOther), Context(Amount250, Amount500, Addr1))
    [] id = "amazonEntity" ->
         Body(TRUE, TRUE, Params(UrlAmazon),
              Context(RupeeEntity \o Amount250, Undefined, Addr1))
    [] id = "amazonGlyph" ->
         Body(TRUE, TRUE, Params(UrlAmazon),
              Context(RupeeGlyph \o Amount250, Undefined, Addr1))
    [] id = "amazonNoAmount" ->
         Body(TRUE, TRUE, Params(UrlAmazon), Context(RupeeEntity, Undefined, Addr1))
    [] id = "flipkart" ->
         Body(TRUE, TRUE, Params(UrlFlipkart), Context(Undefined, Amount500, Addr1))
    [] id = "flipkartNoAddress" ->
         Body(TRUE, TRUE, Params(UrlFlipkart), Context(Undefined, Amount500, <<>>))
    [] id = "flipkartNoText" ->
         Body(TRUE, TRUE, Params(UrlFlipkart), Context(Amount250, Undefined, Addr1))
    [] id = "flipkartOne" ->
         Body(TRUE, TRUE, Params(UrlFlipkart), Context(Undefined, AmountOne, Addr1))
    [] id = "flipkartCents" ->
         Body(TRUE, TRUE, Params(UrlFlipkart), Context(Undefined, AmountCents, Addr1))
    [] id = "flipkartNano" ->
         Body(TRUE, TRUE, Params(UrlFlipkart), Context(Undefined, AmountNano, Addr1))
    [] id = "flipkartBelowNano" ->
         Body(TRUE, TRUE, Params(UrlFlipkart), Context(Undefined, AmountBelowNano, Addr1))
    [] id = "flipkartNegative" ->
         Body(TRUE, TRUE, Params(UrlFlipkart), Context(Undefined, AmountNegative, Addr1))

ProofIds ==
  {"badEscape", "notJson", "noParameters", "badParameters", "otherShop",
   "amazonEntity", "amazonGlyph", "amazonNoAmount", "flipkart",
   "flipkartNoAddress", "flipkartNoText"}

\* Flipkart proofs with amounts of several shapes, and an Amazon proof whose
\* amount is no number.
ConversionProofIds ==
  {"flipkartOne", "flipkartCents", "flipkartNano", "flipkartBelowNano",
   "flipkartNegative", "flipkart", "amazonGlyph"}

(* ------------------------------------------------------ error messages *)

MsgUri == "URI malformed"
MsgJson == "Unexpected token in JSON"
MsgType == "Cannot read properties of undefined"
MsgInvalidProof == "Invalid proof"
MsgVerifier == "verifyProof failed"
MsgPublicKey == "Invalid public key input"
MsgAccount == "getOrCreateAssociatedTokenAccount failed"
MsgRange == "The number NaN cannot be converted to a BigInt"
MsgBlockhash == "getLatestBlockhash failed"
MsgSend == "sendAndConfirmTransaction failed"
MsgWs == "WebSocket send failed"

(* ------------------------------------------------------------- state *)

VARIABLES
  req,         \* req[r]: the run of request r (its continuation and what it did)
  clients,     \* wss.clients in insertion order
  readyState,  \* readyState[o] of every observer connection
  wire         \* what the last step wrote to the observers, and for which request

vars == <<req, clients, readyState, wire>>

\* client.readyState === 1
WsOpen == 1

InitReq ==
  [pc |-> "idle", route |-> "none", body |-> <<>>,
   proof |-> "none", platform |-> "none", extractor |-> "none",
   verifyCalls |-> 0, verdict |-> "none", contextReads |-> 0,
   extracted |-> <<>>,
   transferCalls |-> <<>>, ataCalls |-> 0, tokenAmount |-> <<>>,
   blockhashFetches |-> 0, submissions |-> 0, transferResults |-> <<>>,
   responses |-> <<>>, notes |-> <<>>, escaped |-> FALSE]

NoWire == [req |-> 0, sends |-> <<>>]

Init ==
  /\ req = [r \in Requests |-> InitReq]
  /\ clients = <<>>
  /\ readyState = [o \in Observers |-> 3]
  /\ wire = NoWire

(* -------------------------------------------------------- broadcaster *)

OpenClients == {o \in Range(clients) : readyState[o] = WsOpen}

\* broadcastMessage(message) when the send to observer x raises (x = 0: no
\* send raises).  forEach visits the clients in insertion order and sends to
\* the open ones; an exception leaves the loop and the function.
broadcastMessage(message, x) ==
  LET stops == {i \in 1..Len(clients) : clients[i] = x /\ readyState[x] = WsOpen}
      stop == IF stops = {} THEN Len(clients) + 1 ELSE CHOOSE i \in stops : TRUE
  IN [message |-> message,
      open |-> OpenClients,
      delivered |-> {clients[i] : i \in {j \in 1..(stop - 1) : readyState[clients[j]] = WsOpen}},
      failed |-> {clients[i] : i \in stops},
      threw |-> stops # {}]

Note(b) == [type |-> b.message.type, content |-> b.message.content, threw |-> b.threw]

\* The message of line 309.
ErrorMessage(msg) ==
  [type |-> "error", content |-> [text |-> "Error processing reward: ", message |-> msg]]

\* The message of line 295.
AgentMessage(amount, address, transferResult) ==
  [type |-> "agent",
   content |-> [text |-> "Reward of ${amount} tokens has been successfully transferred to wallet ${address}. Transaction URL: ",
                amount |-> amount, address |-> address,
                transactionUrl |-> transferResult.transactionUrl]]

Respond(rec, status, body) ==
  [rec EXCEPT !.pc = "done",
              !.responses = Append(@, [status |-> status, body |-> body])]

\* The catch block of the handler (lines 305-318): broadcast the failure, then
\* answer 500.  If the broadcast raises, the exception leaves the handler and
\* the response is never sent.
Catch(rec, msg, y) ==
  LET b == broadcastMessage(ErrorMessage(msg), y)
      noted == [rec EXCEPT !.notes = Append(@, Note(b))]
  IN [rec |-> IF b.threw
                THEN [noted EXCEPT !.pc = "done", !.escaped = TRUE]
                ELSE Respond(noted, 500, [success |-> FALSE, error |-> msg]),
      sends |-> <<b>>]

\* A step of the handler that writes nothing to the observers.
Quiet(rec) == [rec |-> rec, sends |-> <<>>]

Commit(r, out) ==
  /\ req' = [req EXCEPT ![r] = out.rec]
  /\ wire' = IF out.sends = <<>> THEN NoWire ELSE [req |-> r, sends |-> out.sends]
  /\ UNCHANGED <<clients, readyState>>

\* Lines 225-228 and 503-506: transferReward rethrows; the error reaches the
\* catch block of the handler that called it.  The one of /transfer-tokens
\* (lines 534-540) answers 500 and broadcasts nothing.
TransferFailed(rec, msg, y) ==
  IF rec.route = "/transfer-tokens"
    THEN Quiet(Respond(rec, 500, [success |-> FALSE, error |-> msg]))
    ELSE Catch(rec, msg, y)

(* ------------------------------------------------------ proof parser *)

\* classify with a default platform instead of the rejection.
classify_Defaulting(url) ==
  IF Includes(url, StrAmazon) THEN "amazon" ELSE "flipkart"

\* Lines 270-277: the platform of a request URL.
classify(url) ==
  IF Includes(url, StrAmazon) THEN "amazon"
  ELSE IF Includes(url, StrFlipkart) THEN "flipkart"
  ELSE "unsupported"

Thrown(msg, parsed) ==
  [threw |-> TRUE, msg |-> msg, amount |-> Undefined, address |-> Undefined,
   parsed |-> parsed]

Extracted(amount, address) ==
  [threw |-> FALSE, msg |-> "", amount |-> amount, address |-> address,
   parsed |-> TRUE]

\* getDataFromFlipkart reading the context whatever verifyProof answered.
getDataFromFlipkart_Unchecked(proof, isValid) ==
  IF isValid = "throw" THEN Thrown(MsgVerifier, FALSE)
  ELSE IF proof.context.kind # "ok" THEN Thrown(MsgJson, TRUE)
  ELSE IF ~proof.context.hasParams THEN Thrown(MsgType, TRUE)
  ELSE Extracted(proof.context.text, proof.context.contextMessage)

\* getDataFromFlipkart once verifyProof has answered isValid ("true", "false",
\* or "throw" when it raised).
getDataFromFlipkart(proof, isValid) ==
  IF isValid = "throw" THEN Thrown(MsgVerifier, FALSE)
  ELSE IF isValid # "true" THEN Thrown(MsgInvalidProof, FALSE)
  ELSE IF proof.context.kind # "ok" THEN Thrown(MsgJson, TRUE)
  ELSE IF ~proof.context.hasParams THEN Thrown(MsgType, TRUE)
  ELSE Extracted(proof.context.text, proof.context.contextMessage)

\* getDataFromAmazon without the test of isValid.
getDataFromAmazon_Unchecked(proof, isValid) ==
  IF isValid = "throw" THEN Thrown(MsgVerifier, FALSE)
  ELSE IF proof.context.kind # "ok" THEN Thrown(MsgJson, TRUE)
  ELSE IF ~proof.context.hasParams THEN Thrown(MsgType, TRUE)
  ELSE IF proof.context.balance = Undefined THEN Thrown(MsgType, TRUE)
  ELSE Extracted(Replace(proof.context.balance, RupeeEntity, <<>>),
                 proof.context.contextMessage)

\* getDataFromAmazon once verifyProof has answered isValid.
getDataFromAmazon(proof, isValid) ==
  IF isValid = "throw" THEN Thrown(MsgVerifier, FALSE)
  ELSE IF isValid # "true" THEN Thrown(MsgInvalidProof, FALSE)
  ELSE IF proof.context.kind # "ok" THEN Thrown(MsgJson, TRUE)
  ELSE IF ~proof.context.hasParams THEN Thrown(MsgType, TRUE)
  ELSE IF proof.context.balance = Undefined THEN Thrown(MsgType, TRUE)
  ELSE Extracted(Replace(proof.context.balance, RupeeEntity, <<>>),
                 proof.context.contextMessage)

\* The extractors taken for each other.
ExtractorFor_Swapped(platform) ==
  IF platform = "amazon" THEN "getDataFromFlipkart" ELSE "getDataFromAmazon"

\* Lines 282-284: the extraction routine called for a platform.
ExtractorFor(platform) ==
  IF platform = "amazon" THEN "getDataFromAmazon" ELSE "getDataFromFlipkart"

\* The validation with && for ||.
MissingField_Both(amount, address) == ~Truthy(amount) /\ ~Truthy(address)

\* Line 287: !amount || !address
MissingField(amount, address) == ~Truthy(amount) \/ ~Truthy(address)

(* --------------------------------------------------- transfer engine *)

\* A conversion that takes an amount that is no number for zero.
TokenAmount_Lenient(amount) ==
  LET pf == parseFloat(amount)
  IN IF pf.nan THEN [threw |-> FALSE, value |-> [neg |-> FALSE, digits |-> <<>>]]
     ELSE [threw |-> FALSE, value |-> FloorBaseUnits(pf)]

\* Line 193: BigInt(Math.floor(parseFloat(amount) * 1e9)); BigInt raises a
\* RangeError for NaN.
TokenAmount(amount) ==
  LET pf == parseFloat(amount)
  IN IF pf.nan THEN [threw |-> TRUE, value |-> [neg |-> FALSE, digits |-> <<>>]]
     ELSE [threw |-> FALSE, value |-> FloorBaseUnits(pf)]

\* The amounts the extractors can return for the bodies of the model.
AmountStrings ==
  UNION {{ProofOf(id).context.text,
          Replace(ProofOf(id).context.balance, RupeeEntity, <<>>)} :
         id \in ProofIds \cup ConversionProofIds}
    \cup {Amount250, RupeeGlyph \o Amount250}

\* TokenAmount of each of them, computed once.
tokenAmount == [amount \in AmountStrings |-> TokenAmount(amount)]

\* The signature the ledger returns for the transaction of request r.
Signature(r) == <<"signature", r>>

\* Lines 219-224.
TransferResult(signature, amount) ==
  [success |-> TRUE,
   signature |-> signature,
   transactionUrl |-> [base |-> "https://explorer.solana.com/tx/",
                       signature |-> signature, query |-> "?cluster=devnet"],
   amount |-> amount]

\* Lines 185-190: the call of getOrCreateAssociatedTokenAccount.
CallGetOrCreate(rec) ==
  [rec EXCEPT !.ataCalls = @ + 1, !.pc = "creatingAccount"]

\* Lines 171-190: transferReward(amount, recipientAddress) up to the call of
\* getOrCreateAssociatedTokenAccount.  pkOk: whether new PublicKey accepts the
\* address.  getAssociatedTokenAddress derives the server's own token account
\* from the wallet and the mint, without the network.
TransferStart(rec, amount, address, pkOk, y) ==
  LET called == [rec EXCEPT !.transferCalls = Append(@, [amount |-> amount, address |-> address])]
  IN IF ~pkOk THEN TransferFailed(called, MsgPublicKey, y)
     ELSE Quiet(CallGetOrCreate(called))

\* A transfer engine that asks for the block reference again.
CallGetLatestBlockhash_Refetch(rec) ==
  [rec EXCEPT !.blockhashFetches = @ + 2, !.pc = "fetchingBlockhash"]

\* Line 208: the call of connection.getLatestBlockhash.
CallGetLatestBlockhash(rec) ==
  [rec EXCEPT !.blockhashFetches = @ + 1, !.pc = "fetchingBlockhash"]

\* A transfer engine that sends the transaction a second time.
CallSendAndConfirm_Resend(rec) ==
  [rec EXCEPT !.submissions = @ + 2, !.pc = "confirming"]

\* Lines 211-215: the call of sendAndConfirmTransaction.
CallSendAndConfirm(rec) ==
  [rec EXCEPT !.submissions = @ + 1, !.pc = "confirming"]

(* ------------------------------------------- POST /receive-proofs *)

\* Lines 262-284: decode the body, classify the proof and call the
\* platform's extractor, which calls verifyProof and awaits it.
ReceiveHandler(rec, proof, y) ==
  IF ~proof.uri THEN Catch(rec, MsgUri, y)
  ELSE IF ~proof.json THEN Catch(rec, MsgJson, y)
  ELSE IF proof.parameters.kind = "absent" THEN Catch(rec, MsgType, y)
  ELSE IF proof.parameters.kind # "ok" THEN Catch(rec, MsgJson, y)
  ELSE LET platform == classify(proof.parameters.url)
       IN IF platform = "unsupported"
            THEN Quiet(Respond(rec, 400, [error |-> "Unsupported platform"]))
            ELSE Quiet([rec EXCEPT !.platform = platform,
                                   !.extractor = ExtractorFor(platform),
                                   !.verifyCalls = @ + 1,
                                   !.pc = "verifying"])

\* Lines 282-292: the extractor resumes with verifyProof's answer; then the
\* validation of the extracted data and the call of transferReward.
VerifiedHandler(rec, isValid, pkOk, y) ==
  LET proof == ProofOf(rec.proof)
      data == IF rec.extractor = "getDataFromAmazon"
                THEN getDataFromAmazon(proof, isValid)
                ELSE getDataFromFlipkart(proof, isValid)
      read == [rec EXCEPT !.verdict = isValid,
                          !.contextReads = @ + (IF data.parsed THEN 1 ELSE 0),
                          !.extracted = IF data.threw THEN @
                                        ELSE Append(@, [amount |-> data.amount,
                                                        address |-> data.address])]
  IN IF data.threw THEN Catch(read, data.msg, y)
     ELSE IF MissingField(data.amount, data.address)
       THEN Quiet(Respond(read, 400, [error |-> "Missing amount or address in proof"]))
       ELSE TransferStart(read, data.amount, data.address, pkOk, y)

\* Lines 217-224 and 292-304: the transfer is confirmed; broadcast the
\* success (x: the observer whose send raises, y: the same for the broadcast
\* of the catch block) and answer 200.
ConfirmedHandler(r, rec, x, y) ==
  LET call == rec.transferCalls[Len(rec.transferCalls)]
      transferResult == TransferResult(Signature(r), call.amount)
      b == broadcastMessage(AgentMessage(call.amount, call.address, transferResult), x)
      noted == [rec EXCEPT !.transferResults = Append(@, transferResult),
                           !.notes = Append(@, Note(b))]
  IN IF b.threw
       THEN LET c == Catch(noted, MsgWs, y)
            IN [rec |-> c.rec, sends |-> <<b>> \o c.sends]
       ELSE [rec |-> Respond(noted, 200,
                             [success |-> TRUE,
                              message |-> "Reward processed successfully",
                              transaction |-> transferResult]),
             sends |-> <<b>>]

(* ------------------------------------------- POST /transfer-tokens *)

\* The platforms a caller may name; nothing checks them.
PlatformEbay == <<"e", "b", "a", "y">>

\* A proof field that is there.
SomeProof == <<"p", "r", "o", "o", "f">>

\* The bodies a client may post to /transfer-tokens: each field is absent,
\* empty or there; the amount may be no number.
TransferBodies ==
  [amount : {Undefined, <<>>, Amount250, RupeeGlyph \o Amount250},
   address : {Undefined, <<>>, Addr1},
   platform : {Undefined, <<>>, StrAmazon, PlatformEbay},
   proof : {Undefined, SomeProof}]

\* The validation without the platform.
MissingRequired_NoPlatform(amount, address, platform) ==
  ~Truthy(amount) \/ ~Truthy(address)

\* Line 523: !amount || !address || !platform
MissingRequired(amount, address, platform) ==
  ~Truthy(amount) \/ ~Truthy(address) \/ ~Truthy(platform)

\* Lines 514-531: destructure the body, validate it and call transferReward.
TransferTokensHandler(rec, body, pkOk) ==
  IF MissingRequired(body.amount, body.address, body.platform)
    THEN Quiet(Respond(rec, 400, [success |-> FALSE, error |-> "Missing required fields"]))
    ELSE TransferStart(rec, body.amount, body.address, pkOk, 0)

\* Lines 531-533: the transfer is confirmed; answer 200 with its result.
TransferTokensConfirmed(r, rec) ==
  LET call == rec.transferCalls[Len(rec.transferCalls)]
      transferResult == TransferResult(Signature(r), call.amount)
  IN Quiet(Respond([rec EXCEPT !.transferResults = Append(@, transferResult)],
                   200, transferResult))

\* A request arrives at /transfer-tokens.
TransferTokens(r, body, pkOk) ==
  /\ req[r].pc = "idle"
  /\ \A q \in Requests : q < r => req[q].pc # "idle"
  /\ Commit(r, TransferTokensHandler(
                 [req[r] EXCEPT !.route = "/transfer-tokens", !.body = <<body>>],
                 body, pkOk))

(* ----------------------------- the steps of a /receive-proofs run *)

\* A server that turns away a proof it has already been given.
ReceiveProofs_Deduplicated(r, id, y) ==
  /\ req[r].pc = "idle"
  /\ \A q \in Requests : q < r => req[q].pc # "idle"
  /\ \A q \in Requests : req[q].proof # id
  /\ Commit(r, ReceiveHandler([req[r] EXCEPT !.route = "/receive-proofs", !.proof = id],
                              ProofOf(id), y))

\* A request arrives.  Requests are numbered in their order of arrival.
ReceiveProofs(r, id, y) ==
  /\ req[r].pc = "idle"
  /\ \A q \in Requests : q < r => req[q].pc # "idle"
  /\ Commit(r, ReceiveHandler([req[r] EXCEPT !.route = "/receive-proofs", !.proof = id],
                              ProofOf(id), y))

\* verifyProof returns true or false, or raises.
VerifyReturns(r, isValid, pkOk, y) ==
  /\ req[r].pc = "verifying"
  /\ Commit(r, VerifiedHandler(req[r], isValid, pkOk, y))

\* getOrCreateAssociatedTokenAccount (line 185) returns or raises; then the
\* amount is converted (line 193) and the block reference is asked for.
AccountReturns(r, ok, y) ==
  /\ req[r].pc = "creatingAccount"
  /\ LET rec == req[r]
         t == tokenAmount[rec.transferCalls[Len(rec.transferCalls)].amount]
     IN Commit(r, IF ~ok THEN TransferFailed(rec, MsgAccount, y)
                  ELSE IF t.threw THEN TransferFailed(rec, MsgRange, y)
                  ELSE Quiet(CallGetLatestBlockhash(
                               [rec EXCEPT !.tokenAmount = <<t.value>>])))

\* getLatestBlockhash (line 208) returns or raises; then the transaction is
\* handed to sendAndConfirmTransaction.
BlockhashReturns(r, ok, y) ==
  /\ req[r].pc = "fetchingBlockhash"
  /\ Commit(r, IF ok THEN Quiet(CallSendAndConfirm(req[r]))
                     ELSE TransferFailed(req[r], MsgBlockhash, y))

\* sendAndConfirmTransaction (line 211) returns the signature or raises.
ConfirmReturns(r, ok, x, y) ==
  /\ req[r].pc = "confirming"
  /\ Commit(r, IF ~ok THEN TransferFailed(req[r], MsgSend, y)
                ELSE IF req[r].route = "/transfer-tokens"
                  THEN TransferTokensConfirmed(r, req[r])
                  ELSE ConfirmedHandler(r, req[r], x, y))

(* --------------------------------------------------------- observers *)

WelcomeMessage ==
  [type |-> "agent",
   content |-> [text |-> "Connected to Solana Rewards server. Ready to process verification requests."]]

\* Lines 350-366: an observer connects; the server holds it in wss.clients
\* and greets it.  A new connection takes the first free handle.
Connect(o) ==
  /\ o \notin Range(clients)
  /\ \A p \in Observers : p < o => p \in Range(clients)
  /\ clients' = Append(clients, o)
  /\ readyState' = [readyState EXCEPT ![o] = WsOpen]
  /\ wire' = [req |-> 0,
              sends |-> <<[message |-> WelcomeMessage, open |-> {o},
                           delivered |-> {o}, failed |-> {}, threw |-> FALSE]>>]
  /\ UNCHANGED req

\* The closing handshake of an open connection starts: readyState CLOSING.
BeginClose(o) ==
  /\ o \in Range(clients)
  /\ readyState[o] = WsOpen
  /\ readyState' = [readyState EXCEPT ![o] = 2]
  /\ wire' = NoWire
  /\ UNCHANGED <<req, clients>>

\* Lines 357-359: the connection's close event; the server drops it from
\* wss.clients.
Closed(o) ==
  /\ o \in Range(clients)
  /\ clients' = SelectSeq(clients, LAMBDA c : c # o)
  /\ readyState' = [readyState EXCEPT ![o] = 3]
  /\ wire' = NoWire
  /\ UNCHANGED req

\* The observers whose send may raise in a step: an open one, or none (0).
Faults == OpenClients \cup {0}

NextFor(R, O, P) ==
  \/ \E r \in R, id \in P, y \in Faults : ReceiveProofs(r, id, y)
  \/ \E r \in R, isValid \in {"true", "false", "throw"}, pkOk \in BOOLEAN, y \in Faults :
       VerifyReturns(r, isValid, pkOk, y)
  \/ \E r \in R, ok \in BOOLEAN, y \in Faults : AccountReturns(r, ok, y)
  \/ \E r \in R, ok \in BOOLEAN, y \in Faults : BlockhashReturns(r, ok, y)
  \/ \E r \in R, ok \in BOOLEAN, x \in Faults, y \in Faults : ConfirmReturns(r, ok, x, y)
  \/ \E o \in O : Connect(o)
  \/ \E o \in O : BeginClose(o)
  \/ \E o \in O : Closed(o)

\* One request with any of the bodies, and the observers coming and going.
Next == NextFor({1}, Observers, ProofIds)

Spec == Init /\ [][Next]_vars

\* The bodies posted while requests overlap: a proof that can be paid out
\* (posted any number of times) and one of an unknown shop.
ConcurrentProofIds == {"amazonEntity", "otherShop"}

\* One request with an amount of any of the shapes.
NextConversion == NextFor({1}, ConcurrentObservers, ConversionProofIds)

SpecConversion == Init /\ [][NextConversion]_vars

\* The server of the second variant: /transfer-tokens alone, no observers.
NextTransferTokens ==
  \/ \E body \in TransferBodies, pkOk \in BOOLEAN : TransferTokens(1, body, pkOk)
  \/ \E ok \in BOOLEAN : AccountReturns(1, ok, 0)
  \/ \E ok \in BOOLEAN : BlockhashReturns(1, ok, 0)
  \/ \E ok \in BOOLEAN : ConfirmReturns(1, ok, 0, 0)

SpecTransferTokens == Init /\ [][NextTransferTokens]_vars

\* Several requests, in sequence or overlapping.
NextConcurrent == NextFor(Requests, ConcurrentObservers, ConcurrentProofIds)

SpecConcurrent == Init /\ [][NextConcurrent]_vars

\* Several requests, in sequence or overlapping, while no observer is
\* connected.
NextOverlapping ==
  \/ \E r \in Requests, id \in ConcurrentProofIds : ReceiveProofs(r, id, 0)
  \/ \E r \in Requests, isValid \in {"true", "false", "throw"}, pkOk \in BOOLEAN :
       VerifyReturns(r, isValid, pkOk, 0)
  \/ \E r \in Requests, ok \in BOOLEAN : AccountReturns(r, ok, 0)
  \/ \E r \in Requests, ok \in BOOLEAN : BlockhashReturns(r, ok, 0)
  \/ \E r \in Requests, ok \in BOOLEAN : ConfirmReturns(r, ok, 0, 0)

SpecOverlapping == Init /\ [][NextOverlapping]_vars

(* ------------------------------------------------------------ claims *)

Done(r) == req[r].pc = "done"
Arrived(r) == req[r].pc # "idle"

Status(r) == [i \in 1..Len(req[r].responses) |-> req[r].responses[i].status]

HasNote(r, type) == \E i \in 1..Len(req[r].notes) : req[r].notes[i].type = type

\* The side effects of transferReward: its call, the account call, the block
\* reference and the submission.
NoTransfer(r) ==
  /\ req[r].transferCalls = <<>>
  /\ req[r].ataCalls = 0
  /\ req[r].blockhashFetches = 0
  /\ req[r].submissions = 0

RECURSIVE SubmissionsOf(_, _)
\* The transactions submitted by the requests of R that posted the body id.
SubmissionsOf(id, R) ==
  IF R = {} THEN 0
  ELSE LET r == CHOOSE q \in R : TRUE
       IN (IF req[r].proof = id THEN req[r].submissions ELSE 0)
          + SubmissionsOf(id, R \ {r})

\* C1: a request whose verification has not answered true (it answered false,
\* raised, or has not answered yet) has not invoked transferReward: no
\* account call, no block reference, no submission, whatever the other
\* requests do.
C1_NoTransferUnlessVerified ==
  \A r \in Requests : req[r].verdict # "true" => NoTransfer(r)

\* A request has ended on a false verdict or on a raising verifier while
\* another request is awaiting the confirmation of its transfer.
C1_Witness ==
  \E r \in Requests, q \in Requests :
    /\ Done(r) /\ req[r].verdict \in {"false", "throw"}
    /\ req[q].pc = "confirming"

\* C2 as written: once no request is in flight, every proof that verified
\* with a non-empty amount and address has exactly one submitted transfer.
C2_ExactlyOncePerProof ==
  (\A r \in Requests : req[r].pc \in {"idle", "done"})
    => \A id \in ProofIds :
         (\E r \in Requests : /\ req[r].proof = id
                              /\ req[r].verdict = "true"
                              /\ req[r].transferCalls # <<>>)
           => SubmissionsOf(id, Requests) = 1

\* C2 amended: the transfer is submitted at most once per request, never per
\* proof: a request submits at most one transaction, only for a proof that
\* verified and gave a non-empty amount and address, and a request answered
\* 200 has submitted exactly one.
C2_AtMostOncePerRequest ==
  \A r \in Requests :
    /\ req[r].submissions <= 1
    /\ req[r].submissions = 1 =>
         /\ req[r].verdict = "true"
         /\ Len(req[r].transferCalls) = 1
         /\ Truthy(req[r].transferCalls[1].amount)
         /\ Truthy(req[r].transferCalls[1].address)
    /\ 200 \in Range(Status(r)) => req[r].submissions = 1

\* The same proof posted twice, both requests answered 200: two submissions.
C2_Witness ==
  \E r \in Requests, q \in Requests :
    /\ r # q
    /\ req[r].proof = "amazonEntity" /\ req[q].proof = "amazonEntity"
    /\ Status(r) = <<200>> /\ Status(q) = <<200>>
    /\ SubmissionsOf("amazonEntity", Requests) = 2

\* C3: a broadcast that fails does not change the response: a request whose
\* transfer succeeded is answered 200 with the transfer result, and a request
\* whose pipeline failed is answered 500.
C3_ResponseUnaffectedByBroadcast ==
  \A r \in Requests :
    Done(r) =>
      /\ Len(req[r].transferResults) = 1 =>
           /\ Status(r) = <<200>>
           /\ req[r].responses[1].body.transaction = req[r].transferResults[1]
      /\ (req[r].transferResults = <<>> /\ HasNote(r, "error")) => Status(r) = <<500>>

\* What decodeURIComponent, JSON.parse of the body or JSON.parse of
\* claimData.parameters does with the body id.
Undecodable(id) ==
  \/ ~ProofOf(id).uri
  \/ ~ProofOf(id).json
  \/ ProofOf(id).parameters.kind # "ok"

\* C4: a request whose body cannot be decoded into a proof envelope is
\* answered 400, and verifyProof is not called.
C4_DecodeFailureIs400 ==
  \A r \in Requests :
    (Arrived(r) /\ Undecodable(req[r].proof)) =>
      /\ req[r].verifyCalls = 0
      /\ Done(r) => Status(r) = <<400>>

\* The pipeline of request r failed at the verification or in transferReward.
FailedRun(r) ==
  /\ Done(r)
  /\ \/ req[r].verdict \in {"false", "throw"}
     \/ req[r].transferCalls # <<>> /\ req[r].transferResults = <<>>

\* C5: a request whose verification or transfer failed is answered 500 with
\* {success: false, error: message}, and an 'error' notification with that
\* message reaches the observers that are open at that moment.
C5_FailureAnswered500AndBroadcast ==
  \A r \in Requests :
    FailedRun(r) =>
      /\ Status(r) = <<500>>
      /\ req[r].responses[1].body.success = FALSE
      /\ Len(req[r].notes) = 1
      /\ req[r].notes[1].type = "error"
      /\ req[r].notes[1].content = ErrorMessage(req[r].responses[1].body.error).content
      /\ wire.req = r =>
           /\ Len(wire.sends) = 1
           /\ wire.sends[1].message = ErrorMessage(req[r].responses[1].body.error)
           /\ wire.sends[1].delivered = OpenClients \ wire.sends[1].failed

\* The request URL of the body id names neither shop.
NeitherShop(id) ==
  /\ ~Undecodable(id)
  /\ ~Includes(ProofOf(id).parameters.url, StrAmazon)
  /\ ~Includes(ProofOf(id).parameters.url, StrFlipkart)

\* C6: a request whose request URL contains neither 'amazon' nor 'flipkart'
\* is answered 400; verifyProof and transferReward are not invoked and no
\* message at all is broadcast for it.
C6_UnsupportedPlatformIs400 ==
  \A r \in Requests :
    (Arrived(r) /\ NeitherShop(req[r].proof)) =>
      /\ Done(r)
      /\ Status(r) = <<400>>
      /\ req[r].responses[1].body = [error |-> "Unsupported platform"]
      /\ req[r].verifyCalls = 0
      /\ NoTransfer(r)
      /\ req[r].notes = <<>>
      /\ wire.req # r

\* A request for an unknown shop has been answered while an observer is open.
C6_Witness ==
  \E r \in Requests :
    /\ req[r].proof = "otherShop" /\ Done(r)
    /\ OpenClients # {}

\* C7: a request whose proof verified and whose extracted amount or address
\* is missing or empty is answered 400 and has not invoked transferReward.
C7_MissingFieldIs400 ==
  \A r \in Requests :
    (/\ req[r].verdict = "true"
     /\ Len(req[r].extracted) = 1
     /\ \/ req[r].extracted[1].amount \in {Undefined, <<>>}
        \/ req[r].extracted[1].address \in {Undefined, <<>>})
      => /\ Status(r) = <<400>>
         /\ NoTransfer(r)

\* A verified proof with an amount and an empty address has been answered.
C7_Witness ==
  \E r \in Requests :
    /\ Done(r) /\ req[r].verdict = "true" /\ Len(req[r].extracted) = 1
    /\ req[r].extracted[1].amount = Amount500
    /\ req[r].extracted[1].address = <<>>

\* An error of the transfer engine's collaborators or of an observer's socket.
ExternalErrors == {MsgPublicKey, MsgAccount, MsgBlockhash, MsgSend, MsgWs}

\* C8 (scenario A): for the Amazon proof with balance "₹250" and address
\* "ADDR1" that verifies, transferReward is invoked with ("250", "ADDR1"), and
\* unless a collaborator fails the response is 200 echoing the amount "250".
C8_ScenarioA ==
  \A r \in Requests :
    (req[r].proof = "amazonGlyph" /\ req[r].verdict = "true") =>
      /\ req[r].transferCalls = <<[amount |-> Amount250, address |-> Addr1]>>
      /\ (Done(r) /\ \A i \in 1..Len(req[r].notes) :
                       req[r].notes[i].type = "error"
                         => req[r].notes[i].content.message \notin ExternalErrors)
           => /\ Status(r) = <<200>>
              /\ req[r].responses[1].body.transaction.amount = Amount250

\* C9: a request whose transfer succeeded is answered 200 with
\* {success: true, transaction: the transfer result} and exactly one 'agent'
\* notification with the transaction URL is broadcast; a request whose
\* transfer did not succeed gets neither a 200 nor an 'agent' notification.
C9_SuccessAnswered200AndBroadcast ==
  \A r \in Requests :
    Done(r) =>
      /\ Len(req[r].transferResults) = 1 =>
           /\ Status(r) = <<200>>
           /\ req[r].responses[1].body.success = TRUE
           /\ req[r].responses[1].body.transaction = req[r].transferResults[1]
           /\ Len(req[r].notes) = 1
           /\ req[r].notes[1].type = "agent"
           /\ req[r].notes[1].content.transactionUrl
                = req[r].transferResults[1].transactionUrl
      /\ req[r].transferResults = <<>> =>
           /\ 200 \notin Range(Status(r))
           /\ ~HasNote(r, "agent")

\* C10: every broadcast of a request reaches every observer that is open at
\* that moment, except one whose own send failed, and no observer that is not
\* open: a failed send does not keep the message from the other open ones.
C10_BroadcastReachesEveryOpenObserver ==
  wire.req # 0 =>
    \A i \in 1..Len(wire.sends) :
      wire.sends[i].delivered = OpenClients \ wire.sends[i].failed

\* C11: every request that ended in an error (anything but a 200) has been
\* answered with exactly one error response and a failure notification has
\* been broadcast for it; no exception has left the handler.
C11_EveryErrorAnsweredAndBroadcast ==
  \A r \in Requests :
    (Done(r) /\ 200 \notin Range(Status(r))) =>
      /\ ~req[r].escaped
      /\ Len(req[r].responses) = 1
      /\ Status(r)[1] \in {400, 500}
      /\ HasNote(r, "error")

\* C13: the platform of a decodable proof is determined by its request URL:
\* 'amazon' without 'flipkart' gives Amazon, 'flipkart' without 'amazon' gives
\* Flipkart, neither gives the rejection; the extraction routine called is
\* that of the platform, and the amount it returns is the one that routine
\* reads (the balance for Amazon, the text for Flipkart).
C13_ClassificationDecidesExtractor ==
  \A r \in Requests :
    (Arrived(r) /\ ~Undecodable(req[r].proof)) =>
      LET proof == ProofOf(req[r].proof)
          a == Includes(proof.parameters.url, StrAmazon)
          f == Includes(proof.parameters.url, StrFlipkart)
      IN /\ (a /\ ~f) => /\ req[r].platform = "amazon"
                         /\ req[r].extractor = "getDataFromAmazon"
         /\ (f /\ ~a) => /\ req[r].platform = "flipkart"
                         /\ req[r].extractor = "getDataFromFlipkart"
         /\ (~a /\ ~f) => /\ req[r].platform = "none"
                          /\ req[r].extractor = "none"
                          /\ Status(r) = <<400>>
         /\ Len(req[r].extracted) = 1 =>
              req[r].extracted[1].amount
                = IF req[r].platform = "amazon"
                    THEN Replace(proof.context.balance, RupeeEntity, <<>>)
                    ELSE proof.context.text

\* A Flipkart proof that carries a balance and no text has been read by the
\* Flipkart routine: no amount.
C13_Witness ==
  \E r \in Requests :
    /\ Len(req[r].extracted) = 1
    /\ req[r].proof = "flipkartNoText"
    /\ ProofOf("flipkartNoText").context.balance = Amount250
    /\ req[r].extractor = "getDataFromFlipkart"
    /\ req[r].extracted[1].amount = Undefined

\* C15: within a request the side effects come in one order and none is
\* repeated: verifyProof is called only for a decoded and classified proof,
\* the context is read only after verifyProof answered true, transferReward
\* is called only with the validated extracted data, a transaction is
\* submitted only inside that call, and a notification is broadcast only when
\* no transfer is in flight any more ('agent' only after the confirmation).
C15_FixedOrderOfSideEffects ==
  \A r \in Requests :
    /\ req[r].verifyCalls <= 1 /\ req[r].contextReads <= 1
    /\ Len(req[r].extracted) <= 1 /\ Len(req[r].transferCalls) <= 1
    /\ req[r].ataCalls <= 1 /\ req[r].blockhashFetches <= 1
    /\ req[r].submissions <= 1 /\ Len(req[r].transferResults) <= 1
    /\ req[r].platform # "none" => ~Undecodable(req[r].proof)
    /\ req[r].verifyCalls = 1 => req[r].platform \in {"amazon", "flipkart"}
    /\ req[r].verdict # "none" => req[r].verifyCalls = 1
    /\ req[r].contextReads = 1 => req[r].verdict = "true"
    /\ Len(req[r].extracted) = 1 => req[r].contextReads = 1
    /\ Len(req[r].transferCalls) = 1 =>
         /\ Len(req[r].extracted) = 1
         /\ req[r].transferCalls[1] = req[r].extracted[1]
         /\ ~MissingField(req[r].extracted[1].amount, req[r].extracted[1].address)
    /\ req[r].ataCalls = 1 => Len(req[r].transferCalls) = 1
    /\ req[r].blockhashFetches = 1 => req[r].ataCalls = 1
    /\ req[r].submissions = 1 => req[r].blockhashFetches = 1
    /\ Len(req[r].transferResults) = 1 => req[r].submissions = 1
    /\ req[r].notes # <<>> => Done(r)
    /\ HasNote(r, "agent") => Len(req[r].transferResults) = 1

\* A Flipkart proof has gone through every step and its success has been
\* announced.
C15_Witness ==
  \E r \in Requests :
    /\ req[r].proof = "flipkart" /\ Done(r)
    /\ req[r].verifyCalls = 1 /\ req[r].contextReads = 1
    /\ req[r].submissions = 1 /\ HasNote(r, "agent")

\* C16: a request calls transferReward at most once and one call makes each
\* of its ledger calls (account, block reference, submission) at most once;
\* the step in which anything fails makes no further call, ends the request
\* without a 200, and a request that has ended does nothing more.
C16_NoRetryAfterFailure ==
  [][\A r \in Requests :
       LET s == req[r]
           t == req'[r]
       IN /\ Len(t.transferCalls) <= 1
          /\ t.ataCalls <= Len(t.transferCalls)
          /\ t.blockhashFetches <= Len(t.transferCalls)
          /\ t.submissions <= Len(t.transferCalls)
          /\ s.pc = "done" => t = s
          /\ (Len(t.notes) > Len(s.notes) /\ t.notes[Len(t.notes)].type = "error") =>
               /\ t.pc = "done"
               /\ t.verifyCalls = s.verifyCalls
               /\ t.ataCalls = s.ataCalls
               /\ t.blockhashFetches = s.blockhashFetches
               /\ t.submissions = s.submissions
               /\ \A i \in 1..Len(t.responses) : t.responses[i].status # 200]_vars

\* A request has ended on a failed confirmation of its one submission.
C16_Witness ==
  \E r \in Requests :
    /\ Done(r)
    /\ req[r].submissions = 1 /\ req[r].transferResults = <<>>
    /\ \E i \in 1..Len(req[r].notes) :
         /\ req[r].notes[i].type = "error"
         /\ req[r].notes[i].content.message = MsgSend

\* C17: requests are neither serialized nor deduplicated: the next request
\* is accepted with any body, one already posted included, whatever the
\* earlier requests are doing; a request waiting for a collaborator can go on
\* as soon as that one answers, whatever the other requests are doing; and a
\* request answered 200 has made its own verification, fetched its own block
\* reference and submitted its own transfer.
C17_TransfersNotSerialized ==
  \A r \in Requests :
    /\ (req[r].pc = "idle" /\ \A q \in Requests : q < r => req[q].pc # "idle")
         => \A id \in ConcurrentProofIds : ENABLED ReceiveProofs(r, id, 0)
    /\ req[r].pc = "verifying" => ENABLED VerifyReturns(r, "true", TRUE, 0)
    /\ req[r].pc = "creatingAccount" => ENABLED AccountReturns(r, TRUE, 0)
    /\ req[r].pc = "fetchingBlockhash" => ENABLED BlockhashReturns(r, TRUE, 0)
    /\ req[r].pc = "confirming" => ENABLED ConfirmReturns(r, TRUE, 0, 0)
    /\ Status(r) = <<200>> =>
         /\ req[r].verifyCalls = 1
         /\ req[r].blockhashFetches = 1
         /\ req[r].submissions = 1
         /\ req[r].transferResults[1].signature = Signature(r)

\* Two requests with the same proof, each with its own verification, block
\* reference and submission, both answered 200 with their own signatures.
C17_Witness ==
  \E r \in Requests, q \in Requests :
    /\ r < q
    /\ req[r].proof = req[q].proof
    /\ \A p \in {r, q} :
         /\ Status(p) = <<200>>
         /\ req[p].verifyCalls = 1
         /\ req[p].blockhashFetches = 1
         /\ req[p].submissions = 1
    /\ req[r].transferResults[1].signature # req[q].transferResults[1].signature

\* C18: the observer set holds exactly the connected observers that have
\* neither disconnected nor had a send to them fail: after a broadcast, no
\* observer whose send raised is still in the set, and every observer in the
\* set is one whose connection has not been closed.
C18_ObserverSetDropsFailedSends ==
  /\ \A o \in Range(clients) : readyState[o] # 3
  /\ \A i \in 1..Len(wire.sends) :
       wire.sends[i].failed \cap Range(clients) = {}

\* C19: a request whose run is over has received exactly one HTTP response,
\* and no request ever has more than one.
C19_ExactlyOneResponse ==
  \A r \in Requests :
    /\ Len(req[r].responses) <= 1
    /\ Done(r) => Len(req[r].responses) = 1

\* The decimal digits ds without their leading zeros.
RECURSIVE StripZeros(_)
StripZeros(ds) ==
  IF ds # <<>> /\ Head(ds) = "0" THEN StripZeros(Tail(ds)) ELSE ds

\* amount * 10^9 truncated toward zero, in exact decimal arithmetic: the
\* digits of the integer part followed by the first nine decimals.
ExactTruncation(amount) ==
  LET pf == parseFloat(amount)
      ds == StripZeros(pf.int \o [i \in 1..TokenDecimals |->
                                    IF i <= Len(pf.frac) THEN pf.frac[i] ELSE "0"])
  IN [neg |-> pf.neg /\ ds # <<>>, digits |-> ds]

\* C12: the base-unit amount transferReward computes is amount * 10^9
\* truncated toward zero, for every decimal amount that reaches it, negative
\* ones included.
C12_TruncatesTowardZero ==
  \A r \in Requests :
    req[r].tokenAmount # <<>> =>
      req[r].tokenAmount[1] = ExactTruncation(req[r].transferCalls[1].amount)

\* The same for the amounts without a sign.
C12_ExactForUnsigned ==
  \A r \in Requests :
    (req[r].tokenAmount # <<>> /\ ~parseFloat(req[r].transferCalls[1].amount).neg) =>
      req[r].tokenAmount[1] = ExactTruncation(req[r].transferCalls[1].amount)

\* Request r has broadcast (or tried to broadcast) the error message msg.
HasError(r, msg) ==
  \E i \in 1..Len(req[r].notes) :
    /\ req[r].notes[i].type = "error"
    /\ req[r].notes[i].content.message = msg

\* transferReward of request r was called with an amount that is no number.
MalformedAmount(r) ==
  /\ Len(req[r].transferCalls) = 1
  /\ parseFloat(req[r].transferCalls[1].amount).nan

\* C20 as written: for an amount that cannot be converted, or an address that
\* cannot be parsed, the account call is not made and nothing is submitted.
C20_NoLedgerEffectForMalformedInput ==
  \A r \in Requests :
    (MalformedAmount(r) \/ HasError(r, MsgPublicKey)) =>
      /\ req[r].ataCalls = 0
      /\ req[r].submissions = 0

\* C20 amended: no transfer is submitted and no block reference fetched for
\* a malformed input; an address that cannot be parsed is rejected before any
\* ledger call, but an amount that cannot be converted is rejected only after
\* the account call has been made and has returned.
C20_NoSubmissionForMalformedInput ==
  \A r \in Requests :
    /\ HasError(r, MsgPublicKey) =>
         /\ req[r].ataCalls = 0
         /\ req[r].blockhashFetches = 0
         /\ req[r].submissions = 0
    /\ MalformedAmount(r) =>
         /\ req[r].blockhashFetches = 0
         /\ req[r].submissions = 0
         /\ HasError(r, MsgRange) => req[r].ataCalls = 1
         /\ (Done(r) /\ ~HasError(r, MsgPublicKey)) => req[r].ataCalls = 1

\* The amount "₹250" has been rejected by the conversion, after the account
\* call.
C20_Witness ==
  \E r \in Requests :
    /\ Done(r) /\ MalformedAmount(r)
    /\ HasError(r, MsgRange)
    /\ req[r].ataCalls = 1 /\ req[r].submissions = 0

\* C14: a /transfer-tokens request never reaches the verifier, the
\* classifier or an extractor and broadcasts nothing; transferReward is
\* called, with the body's amount and address, exactly when amount, address
\* and platform are all there and non-empty, whatever the platform names and
\* whether or not there is a proof; otherwise the answer is 400 and nothing
\* is transferred; a confirmed transfer is answered 200 with its result, a
\* failed one 500 with the error's message.
C14_TransferTokensSkipsVerification ==
  \A r \in Requests :
    req[r].route = "/transfer-tokens" =>
      LET body == req[r].body[1]
          present == Truthy(body.amount) /\ Truthy(body.address) /\ Truthy(body.platform)
      IN /\ req[r].verifyCalls = 0 /\ req[r].verdict = "none"
         /\ req[r].platform = "none" /\ req[r].extractor = "none"
         /\ req[r].contextReads = 0 /\ req[r].extracted = <<>>
         /\ req[r].notes = <<>> /\ wire = NoWire
         /\ present =>
              req[r].transferCalls = <<[amount |-> body.amount, address |-> body.address]>>
         /\ ~present =>
              /\ NoTransfer(r)
              /\ Done(r)
              /\ Status(r) = <<400>>
              /\ req[r].responses[1].body.success = FALSE
         /\ Done(r) => Len(req[r].responses) = 1
         /\ (Done(r) /\ Len(req[r].transferResults) = 1) =>
              /\ Status(r) = <<200>>
              /\ req[r].responses[1].body = req[r].transferResults[1]
              /\ req[r].submissions = 1
         /\ (Done(r) /\ present /\ req[r].transferResults = <<>>) =>
              /\ Status(r) = <<500>>
              /\ req[r].responses[1].body.success = FALSE
              /\ req[r].responses[1].body.error
                   \in {MsgPublicKey, MsgAccount, MsgRange, MsgBlockhash, MsgSend}

\* A body without a proof, for a shop the classifier would reject, has been
\* answered 200 with its transfer result.
C14_Witness ==
  \E r \in Requests :
    /\ req[r].route = "/transfer-tokens"
    /\ req[r].body[1].proof = Undefined
    /\ req[r].body[1].platform = PlatformEbay
    /\ Status(r) = <<200>>
    /\ req[r].submissions = 1

====
